---- MODULE Spec2Model ----
(***************************************************************************)
(* Model of analysis/annotator.py: a launcher that creates the output      *)
(* directory, writes paths.tsv into it and runs the annotator jar with a   *)
(* fixed argument list.                                                    *)
(*                                                                         *)
(* Path names and argument strings are TLA+ strings.  File text is a       *)
(* sequence of tokens (path strings, "\t", "\n"), so that truncation,      *)
(* overwriting at an offset and appending are distinguishable.             *)
(* The filesystem is a function from the path names that exist to nodes.   *)
(***************************************************************************)
EXTENDS Integers, Sequences, FiniteSets, TLC

VARIABLES
    script,        \* Path(__file__).resolve(), as path components
    fs,            \* the filesystem: path name -> node
    fs0,           \* the filesystem before the first run (history)
    javaOnPath,    \* whether the executable "java" can be found
    diskFull,      \* whether writing data to the disk fails
    budget,        \* launches each process may still make
    pc,            \* position of each launcher process
    env,           \* process environment and command line of each run
    REPO, OUT_DIR, ANNOTATOR_JAR,   \* module globals of each process
    handle,        \* the file object "o" of prepare()
    commands,      \* the list built by run_annotator()
    child,         \* state of the external process of each launcher
    childArgv,     \* argument list the external process was started with
    childSaw,      \* what the external process read from its -cp file
    exitCode,      \* exit code of the external process
    result,        \* how the launcher process ended
    log,           \* steps attempted in the current run, in order (history)
    fsAtLaunch,    \* the filesystem when the current run started (history)
    firstRun,      \* observable outcome of the first finished run (history)
    afterFirst     \* paths.tsv after the first successful prepare (history)

vars == <<script, fs, fs0, javaOnPath, diskFull, budget, pc, env, REPO, OUT_DIR,
          ANNOTATOR_JAR, handle, commands, child, childArgv, childSaw, exitCode,
          result, log, fsAtLaunch, firstRun, afterFirst>>

\* ------------------------------------------------------------------ bounds

\* Consecutive runs of the launcher in the sequential specification.
MaxRuns == 2

Procs == {1, 2}

\* ------------------------------------------------------- strings and paths

None == "None"
Unset == "<unset>"

RECURSIVE Join(_, _)
Join(sep, parts) ==
    IF parts = <<>> THEN ""
    ELSE IF Len(parts) = 1 THEN parts[1]
    ELSE parts[1] \o sep \o Join(sep, Tail(parts))

\* str(PurePosixPath): "/" followed by the components joined with "/".
PathStr(path) == "/" \o Join("/", path)

\* Path.parents[i]: the path with its last i + 1 components dropped.
Parents(path, i) == SubSeq(path, 1, Len(path) - (i + 1))

\* str.format with positional "{}" fields: template is the literal pieces and
\* the fields, in order; arguments beyond the fields are ignored.
RECURSIVE Format(_, _)
Format(template, args) ==
    IF template = <<>> THEN ""
    ELSE IF Head(template) = "{}"
         THEN Head(args) \o Format(Tail(template), Tail(args))
         ELSE Head(template) \o Format(Tail(template), args)

\* ------------------------------------------------------------- environment

NoHome == "<no home>"

\* HOME of the process; NoHome: HOME is not set and the user has no passwd entry.
Homes == {"/root", "/home/u", NoHome}

\* Command lines the launcher may be started with.
ArgLines == {<<>>, <<"--depth", "3">>}

Envs == [HOME : Homes, argv : ArgLines]

\* Path.home(): the home directory, or an exception when there is none
\* (RuntimeError; KeyError from pwd.getpwuid before Python 3.10).
PathHome(e) ==
    IF e.HOME = NoHome
    THEN [raised |-> TRUE, value |-> "RuntimeError"]
    ELSE [raised |-> FALSE, value |-> e.HOME]

\* ------------------------------------------------------------- filesystem

\* File names the model's directories may hold.
Names == {"analysis", "annotator-out", "paths.tsv", "notes.txt", "checker.xml", "scanner.xml"}

Dir(w) == [kind |-> "dir", text |-> <<>>, writable |-> w]
File(t, w) == [kind |-> "file", text |-> t, writable |-> w]

Exists(f, path) == path \in DOMAIN f
IsDir(f, path) == Exists(f, path) /\ f[path].kind = "dir"
IsFile(f, path) == Exists(f, path) /\ f[path].kind = "file"

\* The directories of f in which path is an entry (at most one).
ParentDirs(f, path) ==
    {d \in DOMAIN f : f[d].kind = "dir" /\ \E n \in Names : path = d \o "/" \o n}

\* The entries of directory d.
Children(f, d) == {q \in DOMAIN f : \E n \in Names : q = d \o "/" \o n}

Put(f, path, node) == [q \in DOMAIN f \cup {path} |-> IF q = path THEN node ELSE f[q]]

Remove(f, gone) == [q \in DOMAIN f \ gone |-> f[q]]

\* os.mkdir(path)
Mkdir(f, path) ==
    IF Exists(f, path) THEN [err |-> "FileExistsError", fs |-> f]
    ELSE IF ParentDirs(f, path) = {} THEN [err |-> "FileNotFoundError", fs |-> f]
    ELSE IF \E d \in ParentDirs(f, path) : ~f[d].writable
         THEN [err |-> "PermissionError", fs |-> f]
    ELSE [err |-> None, fs |-> Put(f, path, Dir(TRUE))]

\* Variant of Makedirs: the directory is removed with its entries and made anew.
MakedirsRmtree(f, path) ==
    LET cleared == Remove(f, {path} \cup Children(f, path))
        made == Mkdir(cleared, path)
    IN  IF made.err = None THEN made ELSE [err |-> made.err, fs |-> f]

\* Variant of Makedirs: every error of mkdir is dropped.
MakedirsQuiet(f, path) == [err |-> None, fs |-> Mkdir(f, path).fs]

\* os.makedirs(path, exist_ok=True); the parent of OUT_DIR always exists, so
\* only the leaf is made: an OSError of mkdir is dropped when path is a directory.
Makedirs(f, path) ==
    LET made == Mkdir(f, path)
    IN  IF made.err # None /\ IsDir(f, path) THEN [err |-> None, fs |-> f] ELSE made

\* Variant of OpenW: open(path, 'a'), nothing truncated, position at the end.
OpenAppend(f, path) ==
    IF IsDir(f, path) THEN [err |-> "IsADirectoryError", fs |-> f, pos |-> 0]
    ELSE IF IsFile(f, path)
         THEN IF f[path].writable
              THEN [err |-> None, fs |-> f, pos |-> Len(f[path].text)]
              ELSE [err |-> "PermissionError", fs |-> f, pos |-> 0]
    ELSE IF ParentDirs(f, path) = {} THEN [err |-> "FileNotFoundError", fs |-> f, pos |-> 0]
    ELSE IF \E d \in ParentDirs(f, path) : ~f[d].writable
         THEN [err |-> "PermissionError", fs |-> f, pos |-> 0]
    ELSE [err |-> None, fs |-> Put(f, path, File(<<>>, TRUE)), pos |-> 0]

\* Variant of OpenW: open(path, 'r+') with creation, nothing truncated, position 0.
OpenNoTruncate(f, path) ==
    LET o == OpenAppend(f, path) IN [err |-> o.err, fs |-> o.fs, pos |-> 0]

\* open(path, 'w'): create the file or truncate it to nothing; position 0.
OpenW(f, path) ==
    IF IsDir(f, path) THEN [err |-> "IsADirectoryError", fs |-> f, pos |-> 0]
    ELSE IF IsFile(f, path)
         THEN IF f[path].writable
              THEN [err |-> None, fs |-> Put(f, path, File(<<>>, TRUE)), pos |-> 0]
              ELSE [err |-> "PermissionError", fs |-> f, pos |-> 0]
    ELSE IF ParentDirs(f, path) = {} THEN [err |-> "FileNotFoundError", fs |-> f, pos |-> 0]
    ELSE IF \E d \in ParentDirs(f, path) : ~f[d].writable
         THEN [err |-> "PermissionError", fs |-> f, pos |-> 0]
    ELSE [err |-> None, fs |-> Put(f, path, File(<<>>, TRUE)), pos |-> 0]

Max(a, b) == IF a >= b THEN a ELSE b

\* write(2) of data at offset pos of a file holding text.
WriteAt(text, pos, data) ==
    [i \in 1..Max(Len(text), pos + Len(data)) |->
        IF i > pos /\ i <= pos + Len(data) THEN data[i - pos]
        ELSE IF i <= Len(text) THEN text[i]
        ELSE "\\0"]

\* The text a str.format template yields, as tokens: one token for each field
\* and each literal piece.
RECURSIVE FormatText(_, _)
FormatText(template, args) ==
    IF template = <<>> THEN <<>>
    ELSE IF Head(template) = "{}"
         THEN <<Head(args)>> \o FormatText(Tail(template), Tail(args))
         ELSE <<Head(template)>> \o FormatText(Tail(template), args)

\* ---------------------------------------------------------- the launcher

\* Stands for "no text": nothing was read or recorded.
NoText == <<Unset>>

ClosedHandle == [open |-> FALSE, path |-> Unset, pos |-> 0, buf |-> <<>>]

\* The path opened at line 27.
PathsTsv(outDir) == Format(<<"{}", "/paths.tsv">>, <<outDir>>)

\* Variant of PathsLine: the line without its newline.
PathsLineNoNewline(outDir) ==
    FormatText(<<"{}", "\t", "{}">>,
               <<Format(<<"{}", "/checker.xml">>, <<outDir>>),
                 Format(<<"{}", "/scanner.xml">>, <<outDir>>)>>)

\* The text written at line 28.
PathsLine(outDir) ==
    FormatText(<<"{}", "\t", "{}", "\n">>,
               <<Format(<<"{}", "/checker.xml">>, <<outDir>>),
                 Format(<<"{}", "/scanner.xml">>, <<outDir>>)>>)

\* Variant of Commands: line 47 uncommented.
CommandsWithToggle(repo, outDir, jar) ==
       <<"java", "-jar", jar>>
    \o <<"-d", outDir>>
    \o <<"-bc", Format(<<"cd ", "{}", " && ./build.sh">>, <<repo>>)>>
    \o <<"-cp", Format(<<"{}", "/paths.tsv">>, <<outDir>>)>>
    \o <<"-i", "edu.Initializer">>
    \o <<"-n", "com.example.x.ucrtainting.qual.RUntainted">>
    \o <<"-cn", "UCRTaint">>
    \o <<"--depth", "25">>
    \o <<"-dc">>

\* The list run_annotator builds at lines 33-41 (lines 43-51 are comments).
Commands(repo, outDir, jar) ==
       <<"java", "-jar", jar>>
    \o <<"-d", outDir>>
    \o <<"-bc", Format(<<"cd ", "{}", " && ./build.sh">>, <<repo>>)>>
    \o <<"-cp", Format(<<"{}", "/paths.tsv">>, <<outDir>>)>>
    \o <<"-i", "edu.Initializer">>
    \o <<"-n", "com.example.x.ucrtainting.qual.RUntainted">>
    \o <<"-cn", "UCRTaint">>
    \o <<"--depth", "25">>

\* Exit codes of the external process (negative: killed by a signal).
ExitCodes == {0, 1, 0 - 9}

\* Variant of Call: subprocess.check_call, which raises on a non-zero code.
CheckCall(code) ==
    IF code = 0 THEN [exc |-> None, value |-> code]
    ELSE [exc |-> "CalledProcessError", value |-> code]

\* subprocess.call(commands) once the child has exited: its return code.
Call(code) == [exc |-> None, value |-> code]

Ended(p) == pc[p] \in {"done", "failed"}

NoRun == [seen |-> FALSE]

\* What a finished run leaves to be observed.
Observed(p) ==
    [seen |-> TRUE, ok |-> pc[p] = "done", outDir |-> OUT_DIR[p], argv |-> childArgv[p],
     fs |-> fs]

Step(p, from, name, to) ==
    /\ pc[p] = from
    /\ pc' = [pc EXCEPT ![p] = to]
    /\ log' = [log EXCEPT ![p] = Append(@, name)]

Raise(p, e) == result' = [result EXCEPT ![p] = [exc |-> e, ret |-> Unset]]

\* Exit status of the interpreter: 1 after an uncaught exception.
ExitStatus(r) == IF r.exc = None THEN 0 ELSE 1

fixed == <<script, fs0, javaOnPath, diskFull>>
globals == <<REPO, OUT_DIR, ANNOTATOR_JAR>>
childVars == <<child, childArgv, childSaw, exitCode>>

\* The script is started: python3 analysis/annotator.py.
Launch(p) ==
    /\ pc[p] \in {"idle", "done", "failed"}
    /\ budget[p] > 0
    /\ budget' = [budget EXCEPT ![p] = @ - 1]
    /\ \E e \in Envs : env' = [env EXCEPT ![p] = e]
    /\ pc' = [pc EXCEPT ![p] = "import"]
    /\ log' = [log EXCEPT ![p] = <<>>]
    /\ REPO' = [REPO EXCEPT ![p] = Unset]
    /\ OUT_DIR' = [OUT_DIR EXCEPT ![p] = Unset]
    /\ ANNOTATOR_JAR' = [ANNOTATOR_JAR EXCEPT ![p] = Unset]
    /\ handle' = [handle EXCEPT ![p] = ClosedHandle]
    /\ commands' = [commands EXCEPT ![p] = <<>>]
    /\ child' = [child EXCEPT ![p] = "none"]
    /\ childArgv' = [childArgv EXCEPT ![p] = <<>>]
    /\ childSaw' = [childSaw EXCEPT ![p] = NoText]
    /\ exitCode' = [exitCode EXCEPT ![p] = Unset]
    /\ result' = [result EXCEPT ![p] = [exc |-> None, ret |-> Unset]]
    /\ fsAtLaunch' = [fsAtLaunch EXCEPT ![p] = fs]
    /\ firstRun' = IF ~firstRun.seen /\ Ended(p) THEN Observed(p) ELSE firstRun
    /\ UNCHANGED <<fixed, fs, afterFirst>>

\* Lines 16-23: the imports and the module globals.
Import(p) ==
    LET repo == PathStr(Parents(script, 1))
        out == Format(<<"{}", "/annotator-out">>, <<repo>>)
        home == PathHome(env[p])
    IN  /\ REPO' = [REPO EXCEPT ![p] = repo]
        /\ OUT_DIR' = [OUT_DIR EXCEPT ![p] = out]
        /\ IF home.raised
           THEN /\ Step(p, "import", "import", "failed")
                /\ Raise(p, home.value)
                /\ UNCHANGED ANNOTATOR_JAR
           ELSE /\ Step(p, "import", "import", "makedirs")
                /\ ANNOTATOR_JAR' =
                      [ANNOTATOR_JAR EXCEPT ![p] = Format(<<"/var/core.jar">>, <<home.value>>)]
                /\ UNCHANGED result
        /\ UNCHANGED <<fixed, fs, budget, env, handle, commands, childVars,
                       fsAtLaunch, firstRun, afterFirst>>

\* Line 26, reached through lines 55 and 32.
MakedirsStep(p) ==
    LET made == Makedirs(fs, OUT_DIR[p])
    IN  /\ fs' = made.fs
        /\ IF made.err # None
           THEN Step(p, "makedirs", "makedirs", "failed") /\ Raise(p, made.err)
           ELSE Step(p, "makedirs", "makedirs", "open") /\ UNCHANGED result
        /\ UNCHANGED <<fixed, globals, budget, env, handle, commands, childVars,
                       fsAtLaunch, firstRun, afterFirst>>

\* Line 27: open(..., 'w').
OpenStep(p) ==
    LET path == PathsTsv(OUT_DIR[p])
        o == OpenW(fs, path)
    IN  /\ fs' = o.fs
        /\ IF o.err # None
           THEN /\ Step(p, "open", "open", "failed")
                /\ Raise(p, o.err)
                /\ UNCHANGED handle
           ELSE /\ Step(p, "open", "open", "write")
                /\ handle' = [handle EXCEPT ![p] =
                                 [open |-> TRUE, path |-> path, pos |-> o.pos, buf |-> <<>>]]
                /\ UNCHANGED result
        /\ UNCHANGED <<fixed, globals, budget, env, commands, childVars,
                       fsAtLaunch, firstRun, afterFirst>>

\* Line 28: o.write(...) puts the text in the file object's buffer.
WriteStep(p) ==
    /\ Step(p, "write", "write", "close")
    /\ handle' = [handle EXCEPT ![p].buf = @ \o PathsLine(OUT_DIR[p])]
    /\ UNCHANGED <<fixed, fs, globals, budget, env, commands, childVars, result,
                   fsAtLaunch, firstRun, afterFirst>>

\* End of the with block: the buffer is flushed to the file and the file is
\* closed; a failed flush raises after the file is closed.
CloseStep(p) ==
    LET h == handle[p]
    IN  /\ handle' = [handle EXCEPT ![p] = ClosedHandle]
        /\ IF diskFull
           THEN /\ Step(p, "close", "close", "failed")
                /\ Raise(p, "OSError")
                /\ UNCHANGED <<fs, afterFirst>>
           ELSE /\ Step(p, "close", "close", "build")
                /\ fs' = IF IsFile(fs, h.path)
                         THEN [fs EXCEPT ![h.path].text = WriteAt(@, h.pos, h.buf)]
                         ELSE fs
                /\ afterFirst' = IF afterFirst = NoText /\ IsFile(fs', h.path)
                                 THEN fs'[h.path].text
                                 ELSE afterFirst
                /\ UNCHANGED result
        /\ UNCHANGED <<fixed, globals, budget, env, commands, childVars,
                       fsAtLaunch, firstRun>>

\* Lines 33-41.
BuildStep(p) ==
    /\ pc[p] = "build"
    /\ pc' = [pc EXCEPT ![p] = "spawn"]
    /\ commands' = [commands EXCEPT ![p] = Commands(REPO[p], OUT_DIR[p], ANNOTATOR_JAR[p])]
    /\ UNCHANGED <<fixed, fs, globals, budget, env, handle, childVars, result, log,
                   fsAtLaunch, firstRun, afterFirst>>

\* Line 52: subprocess.call starts the child, or raises when commands[0]
\* cannot be found.
SpawnStep(p) ==
    /\ IF javaOnPath
       THEN /\ Step(p, "spawn", "spawn", "wait")
            /\ child' = [child EXCEPT ![p] = "running"]
            /\ childArgv' = [childArgv EXCEPT ![p] = commands[p]]
            /\ UNCHANGED result
       ELSE /\ Step(p, "spawn", "spawn", "failed")
            /\ Raise(p, "FileNotFoundError")
            /\ UNCHANGED <<child, childArgv>>
    /\ UNCHANGED <<fixed, fs, globals, budget, env, handle, commands, childSaw, exitCode,
                   fsAtLaunch, firstRun, afterFirst>>

\* The file the child was given with -cp.
CpFile(argv) ==
    LET at == {i \in 1..(Len(argv) - 1) : argv[i] = "-cp"}
    IN  IF at = {} THEN Unset ELSE argv[(CHOOSE i \in at : \A j \in at : i <= j) + 1]

\* The external tool reads its -cp file.
ChildRead(p) ==
    /\ child[p] = "running"
    /\ child' = [child EXCEPT ![p] = "read"]
    /\ childSaw' = [childSaw EXCEPT ![p] =
                       IF IsFile(fs, CpFile(childArgv[p]))
                       THEN fs[CpFile(childArgv[p])].text
                       ELSE <<"<missing>">>]
    /\ UNCHANGED <<fixed, fs, globals, budget, pc, env, handle, commands, childArgv, exitCode,
                   result, log, fsAtLaunch, firstRun, afterFirst>>

\* The external tool exits, or is killed.
ChildExit(p) ==
    /\ child[p] \in {"running", "read"}
    /\ child' = [child EXCEPT ![p] = "exited"]
    /\ \E code \in ExitCodes : exitCode' = [exitCode EXCEPT ![p] = code]
    /\ log' = [log EXCEPT ![p] = Append(@, "child_exit")]
    /\ UNCHANGED <<fixed, fs, globals, budget, pc, env, handle, commands, childArgv, childSaw,
                   result, fsAtLaunch, firstRun, afterFirst>>

\* Variant of ReturnStep: the launcher does not wait for the child.
ReturnStepEarly(p) ==
    /\ Step(p, "wait", "return", "done")
    /\ result' = [result EXCEPT ![p] = [exc |-> None, ret |-> None]]
    /\ UNCHANGED <<fixed, fs, globals, budget, env, handle, commands, childVars,
                   fsAtLaunch, firstRun, afterFirst>>

\* Line 52 returns once the child has exited; its value is dropped, and
\* run_annotator and the script end (lines 53-55).
ReturnStep(p) ==
    LET r == Call(exitCode[p])
    IN  /\ pc[p] = "wait"
        /\ child[p] = "exited"
        /\ IF r.exc # None
           THEN Step(p, "wait", "return", "failed") /\ Raise(p, r.exc)
           ELSE /\ Step(p, "wait", "return", "done")
                /\ result' = [result EXCEPT ![p] = [exc |-> None, ret |-> None]]
        /\ UNCHANGED <<fixed, fs, globals, budget, env, handle, commands, childVars,
                       fsAtLaunch, firstRun, afterFirst>>


\* ------------------------------------------------------------ initial states

\* Where the repository is checked out: the launcher's resolved path and the
\* repository root it lies in.
Checkouts ==
    { [script |-> <<"r", "analysis", "annotator.py">>, root |-> "/r"],
      [script |-> <<"home", "u", "cxf", "analysis", "annotator.py">>, root |-> "/home/u/cxf"] }

Merge(f, g) == [q \in DOMAIN f \cup DOMAIN g |-> IF q \in DOMAIN f THEN f[q] ELSE g[q]]
Nothing == [q \in {} |-> Dir(TRUE)]
Only(path, node) == [q \in {path} |-> node]

\* What paths.tsv may hold before the first run.
OldTexts(out) ==
    LET line == <<out \o "/checker.xml", "\t", out \o "/scanner.xml", "\n">>
    IN  {<<>>, line, <<"old", "\n">>, line \o <<"junk", "\n">>}

TsvBefore(out) ==
    {Nothing, Only(out \o "/paths.tsv", Dir(TRUE))}
    \cup {Only(out \o "/paths.tsv", File(t, w)) : t \in OldTexts(out), w \in BOOLEAN}

OthersBefore(out) ==
    {Merge(a, b) : a \in {Nothing, Only(out \o "/notes.txt", File(<<"n", "\n">>, TRUE))},
                   b \in {Nothing, Only(out \o "/checker.xml", File(<<"<c/>">>, FALSE))}}

OutDirBefore(out) ==
    {Nothing, Only(out, File(<<"x">>, TRUE))}
    \cup {Merge(Only(out, Dir(w)), Merge(t, o)) :
            w \in BOOLEAN, t \in TsvBefore(out), o \in OthersBefore(out)}

\* The filesystems the launcher may find: the repository root and the
\* launcher's directory exist; annotator-out is absent, a file, or a directory.
FsBefore(root) ==
    {Merge(Merge(Only(root, Dir(w)), Only(root \o "/analysis", Dir(TRUE))), o) :
        w \in BOOLEAN, o \in OutDirBefore(root \o "/annotator-out")}

InitWith(b) ==
    /\ \E c \in Checkouts :
          /\ script = c.script
          /\ fs0 \in FsBefore(c.root)
    /\ fs = fs0
    /\ javaOnPath \in BOOLEAN
    /\ diskFull \in BOOLEAN
    /\ budget = b
    /\ pc = [p \in Procs |-> "idle"]
    /\ env = [p \in Procs |-> [HOME |-> "/root", argv |-> <<>>]]
    /\ REPO = [p \in Procs |-> Unset]
    /\ OUT_DIR = [p \in Procs |-> Unset]
    /\ ANNOTATOR_JAR = [p \in Procs |-> Unset]
    /\ handle = [p \in Procs |-> ClosedHandle]
    /\ commands = [p \in Procs |-> <<>>]
    /\ child = [p \in Procs |-> "none"]
    /\ childArgv = [p \in Procs |-> <<>>]
    /\ childSaw = [p \in Procs |-> NoText]
    /\ exitCode = [p \in Procs |-> Unset]
    /\ result = [p \in Procs |-> [exc |-> None, ret |-> Unset]]
    /\ log = [p \in Procs |-> <<>>]
    /\ fsAtLaunch = [p \in Procs |-> fs0]
    /\ firstRun = NoRun
    /\ afterFirst = NoText

\* One launcher, run up to MaxRuns times, one run after the other.
Init == InitWith([p \in Procs |-> IF p = 1 THEN MaxRuns ELSE 0])

\* Two launchers started once each, running at the same time.
\* The disk has room and annotator-out, when there, holds at most paths.tsv.
InitConc ==
    /\ InitWith([p \in Procs |-> 1])
    /\ script = <<"r", "analysis", "annotator.py">>
    /\ ~diskFull
    /\ Children(fs0, "/r/annotator-out") \subseteq {"/r/annotator-out/paths.tsv"}

Next ==
    \E p \in Procs :
        \/ Launch(p)
        \/ Import(p)
        \/ MakedirsStep(p)
        \/ OpenStep(p)
        \/ WriteStep(p)
        \/ CloseStep(p)
        \/ BuildStep(p)
        \/ SpawnStep(p)
        \/ ChildRead(p)
        \/ ChildExit(p)
        \/ ReturnStep(p)

Spec == Init /\ [][Next]_vars

SpecConc == InitConc /\ [][Next]_vars


\* The launcher returns as soon as the child it waits for has exited.
FairSpec == Spec /\ \A p \in Procs : WF_vars(ReturnStep(p))

\* ------------------------------------------------------------------ claims

\* The repository root: the directory one level above the launcher's directory.
RepoRoot == (CHOOSE c \in Checkouts : c.script = script).root
OutDir == RepoRoot \o "/annotator-out"
Tsv == OutDir \o "/paths.tsv"
TheLine == <<OutDir \o "/checker.xml", "\t", OutDir \o "/scanner.xml", "\n">>

IsPrefix(s, t) == Len(s) <= Len(t) /\ s = SubSeq(t, 1, Len(s))
Did(p, name) == \E i \in 1..Len(log[p]) : log[p][i] = name
Prepared(p) == Did(p, "close") /\ (pc[p] = "failed" => Did(p, "spawn"))
LauncherSteps == <<"import", "makedirs", "open", "write", "close", "spawn">>
AllSteps == LauncherSteps \o <<"child_exit", "return">>

ExpectedArgv(R) ==
    <<"java", "-jar", "/var/core.jar", "-d", R \o "/annotator-out",
      "-bc", "cd " \o R \o " && ./build.sh", "-cp", R \o "/annotator-out/paths.tsv",
      "-i", "edu.Initializer", "-n", "com.example.x.ucrtainting.qual.RUntainted",
      "-cn", "UCRTaint", "--depth", "25">>

DisabledToggles == {"-rboserr", "-ch", "-dc", "-dol", "--disable-parallel-processing"}

\* C1: the argument list handed to the process-spawn call is exactly the
\* seventeen expected arguments, in order, for the repository root R and
\* the archive /var/core.jar, and holds none of the disabled toggles.
C1_ArgumentList ==
    \A p \in Procs :
        Did(p, "spawn") =>
            /\ commands[p] = ExpectedArgv(RepoRoot)
            /\ \A i \in 1..Len(commands[p]) : commands[p][i] \notin DisabledToggles
            /\ child[p] # "none" => childArgv[p] = ExpectedArgv(RepoRoot)

C1_Witness ==
    /\ child[1] = "running"
    /\ RepoRoot = "/home/u/cxf"
    /\ childArgv[1][7] = "cd /home/u/cxf && ./build.sh"

\* The output directory was absent, or present and empty, when the run of p started.
StartedClean(p) ==
    \/ ~Exists(fsAtLaunch[p], OutDir)
    \/ IsDir(fsAtLaunch[p], OutDir) /\ Children(fsAtLaunch[p], OutDir) = {}

\* C2: when the output directory was absent or empty and prepare has
\* returned, the directory exists and holds exactly one file, paths.tsv,
\* whose whole text is the one line checker.xml TAB scanner.xml NEWLINE.
C2_PrepareResult ==
    \A p \in Procs :
        pc[p] = "build" /\ StartedClean(p) =>
            /\ IsDir(fs, OutDir)
            /\ Children(fs, OutDir) = {Tsv}
            /\ IsFile(fs, Tsv)
            /\ fs[Tsv].text = TheLine

C2_Witness ==
    /\ pc[1] = "build"
    /\ ~Exists(fsAtLaunch[1], OutDir)
    /\ IsFile(fs, Tsv)

\* C3: after every successful prepare, paths.tsv holds what it held after
\* the first successful prepare, whatever it held before the first one.
C3_Idempotent ==
    \A p \in Procs :
        pc[p] = "build" => IsFile(fs, Tsv) /\ fs[Tsv].text = afterFirst

C3_Witness ==
    /\ pc[1] = "build"
    /\ firstRun.seen /\ firstRun.ok
    /\ IsFile(fs0, Tsv) /\ fs0[Tsv].text = TheLine \o <<"junk", "\n">>

\* C4: when the output directory exists beforehand, no run removes it or
\* changes any path other than paths.tsv: every other path that existed
\* still exists unchanged, and paths.tsv is the only path that can be new.
C4_Frame ==
    IsDir(fs0, OutDir) =>
        /\ \A q \in DOMAIN fs0 \ {Tsv} : Exists(fs, q) /\ fs[q] = fs0[q]
        /\ DOMAIN fs \ DOMAIN fs0 \subseteq {Tsv}

C4_Witness ==
    /\ pc[1] = "done"
    /\ Exists(fs0, OutDir \o "/notes.txt") /\ Exists(fs0, OutDir \o "/checker.xml")
    /\ IsFile(fs0, Tsv) /\ fs[Tsv] # fs0[Tsv]

\* C5: a failing step ends the run with its error: the steps attempted are
\* the fixed sequence up to the failing one, each once, none after it; the
\* child is never started after a failure; and no step whose operation
\* failed is passed over.
C5_FailFast ==
    \A p \in Procs :
        /\ pc[p] = "failed" =>
              /\ result[p].exc # None /\ ExitStatus(result[p]) = 1
              /\ IsPrefix(log[p], LauncherSteps) /\ log[p] # <<>>
              /\ child[p] = "none"
        /\ pc[p] # "failed" =>
              /\ result[p].exc = None
              /\ Did(p, "makedirs") => IsDir(fs, OutDir)
              /\ Did(p, "open") => IsFile(fs, Tsv)
              /\ Did(p, "close") => ~diskFull
              /\ Did(p, "spawn") => javaOnPath

C5_Witness ==
    /\ pc[1] = "failed"
    /\ result[1].exc = "PermissionError"
    /\ log[1] = <<"import", "makedirs", "open">>

\* C6 as claimed: a failed run leaves the filesystem as it found it.
C6_NoPartialState ==
    \A p \in Procs : pc[p] = "failed" => fs = fsAtLaunch[p]

\* Every path but the output directory and paths.tsv is as the run found it.
RestAsFound(p) ==
    /\ \A q \in DOMAIN fsAtLaunch[p] \ {Tsv} : Exists(fs, q) /\ fs[q] = fsAtLaunch[p][q]
    /\ DOMAIN fs \ DOMAIN fsAtLaunch[p] \subseteq {OutDir, Tsv}

\* C6: a failed run reports an error and undoes nothing: what the steps
\* before the failing one did stays.  Failing at the imports or at makedirs
\* leaves the filesystem as found; at open, the directory is there; at the
\* flush, paths.tsv is there and empty; at the spawn, paths.tsv holds its
\* line and no child was started.
C6_FailureKeepsCompletedSteps ==
    \A p \in Procs :
        pc[p] = "failed" =>
            LET step == log[p][Len(log[p])]
            IN  /\ result[p].exc # None
                /\ step \in {"import", "makedirs"} => fs = fsAtLaunch[p]
                /\ step = "open" =>
                      /\ IsDir(fs, OutDir) /\ RestAsFound(p)
                      /\ IF Exists(fsAtLaunch[p], Tsv)
                         THEN Exists(fs, Tsv) /\ fs[Tsv] = fsAtLaunch[p][Tsv]
                         ELSE ~Exists(fs, Tsv)
                /\ step = "close" =>
                      /\ IsDir(fs, OutDir) /\ RestAsFound(p)
                      /\ IsFile(fs, Tsv) /\ fs[Tsv].text = <<>>
                /\ step = "spawn" =>
                      /\ IsDir(fs, OutDir) /\ RestAsFound(p)
                      /\ IsFile(fs, Tsv) /\ fs[Tsv].text = TheLine
                      /\ child[p] = "none"

C6_Witness ==
    /\ pc[1] = "failed"
    /\ log[1][Len(log[1])] = "spawn"
    /\ ~Exists(fsAtLaunch[1], OutDir)
    /\ IsFile(fs, Tsv)

\* C7: whatever exit code the child returns, run_annotator returns None
\* and the launcher ends normally, with exit status 0.
C7_ExitCodeIgnored ==
    \A p \in Procs :
        child[p] = "exited" /\ pc[p] # "wait" =>
            /\ pc[p] = "done"
            /\ result[p] = [exc |-> None, ret |-> None]
            /\ ExitStatus(result[p]) = 0

C7_Witness ==
    /\ pc[1] = "done"
    /\ exitCode[1] = 1

\* C8 as claimed: a finished run leaves the same output directory path,
\* filesystem, child argument list and success or failure as the first run,
\* whatever its environment and command line.
C8_EnvIndependent ==
    \A p \in Procs : firstRun.seen /\ Ended(p) => Observed(p) = firstRun

\* C9: the steps of a run are a prefix of one fixed sequence; the directory
\* exists when paths.tsv is opened; paths.tsv is written and closed when the
\* child is spawned; while the child runs the launcher waits; the launcher
\* ends only after the child has exited, and once it has exited it ends.
C9_StepOrder ==
    \A p \in Procs :
        /\ IsPrefix(log[p], AllSteps)
        /\ Did(p, "open") => IsDir(fs, OutDir)
        /\ Did(p, "spawn") =>
              ~handle[p].open /\ IsFile(fs, Tsv) /\ fs[Tsv].text = TheLine
        /\ child[p] \in {"running", "read"} => pc[p] = "wait"
        /\ pc[p] = "done" => child[p] = "exited" /\ log[p] = AllSteps

\* C9, with the liveness half: C9_StepOrder always holds, and a child that has
\* exited leads to the launcher ending.
C9_Order ==
    /\ []C9_StepOrder
    /\ \A p \in Procs : (child[p] = "exited") ~> (pc[p] = "done")

C9_Witness ==
    /\ pc[1] = "done"
    /\ log[1] = AllSteps
    /\ childSaw[1] = TheLine

\* C10: with two launchers at once, whenever both have finished prepare
\* paths.tsv holds exactly the one line.
C10_AfterAllPrepared ==
    (\A p \in Procs : Prepared(p)) => IsFile(fs, Tsv) /\ fs[Tsv].text = TheLine

\* One launcher has truncated paths.tsv and not yet written it while the
\* other's child runs and has read the empty file.
C10_Witness ==
    \E p, q \in Procs :
        /\ p # q
        /\ pc[p] \in {"write", "close"} /\ handle[p].open
        /\ IsFile(fs, Tsv) /\ fs[Tsv].text = <<>>
        /\ child[q] = "read" /\ childSaw[q] = <<>>

====
